---- MODULE Spec2Model ----
(***************************************************************************)
(* QuickPackage (qp): the build / install / uninstall orchestrator of      *)
(* main.go (the revision with SystemdUnit, stop-before-install and the    *)
(* staging-directory cleanup) and type.go.                                 *)
(*                                                                         *)
(* The world is a file system (files with contents, directories), the      *)
(* service manager (service state, enablement) and, per invocation of the  *)
(* tool, the position in main/doBuild/doInstall/doUninstall with the       *)
(* locals those functions keep.  Every external command and every file     *)
(* system call the code makes is one step; its outcome (success, failure)  *)
(* is chosen by the environment.                                           *)
(***************************************************************************)
EXTENDS Integers, Sequences, FiniteSets, TLC

(***************************************************************************)
(* Bounds.                                                                 *)
(***************************************************************************)
\* invocations of the tool in one behaviour (they run one after another)
MaxRuns == 2

\* commands (system calls, systemctl, scripts) that fail in one behaviour
MaxFaults == 1

(***************************************************************************)
(* Strings.  A name (one path component, an app name) is a sequence of     *)
(* tokens, so that strings.HasPrefix and the sorted order of os.ReadDir    *)
(* are computed on the name, not assumed.                                  *)
(***************************************************************************)
N(s) == <<s>>

Dot == N(".")

DotDot == N("..")

EmptyName == <<>>

\* the decimal strings os.MkdirTemp appends
Digit == <<"1", "2", "3", "4", "5", "6", "7", "8", "9">>

\* byte order of the first character of a token
TokRank(t) ==
    CASE t = "." -> 46
      [] t = ".." -> 46
      [] t \in {Digit[i] : i \in 1..Len(Digit)} -> 48 + (CHOOSE i \in 1..Len(Digit) : Digit[i] = t)
      [] t = "_" -> 95
      [] t = "a" -> 97
      [] t = "b" -> 98
      [] t = "qp_build_" -> 113
      [] OTHER -> 120

\* strings.HasPrefix(name, prefix)
HasPrefix(name, prefix) ==
    /\ Len(prefix) <= Len(name)
    /\ SubSeq(name, 1, Len(prefix)) = prefix

RECURSIVE NameLess(_, _)
\* name order of os.ReadDir (entries sorted by filename)
NameLess(x, y) ==
    IF x = <<>> THEN y # <<>>
    ELSE IF y = <<>> THEN FALSE
    ELSE IF Head(x) = Head(y) THEN NameLess(Tail(x), Tail(y))
    ELSE TokRank(Head(x)) < TokRank(Head(y))

(***************************************************************************)
(* Paths as path/filepath computes them.  A path value is                  *)
(* [abs, segs]: rooted or not, and its components.                        *)
(***************************************************************************)
RelP(segs) == [abs |-> FALSE, segs |-> segs]

AbsP(segs) == [abs |-> TRUE, segs |-> segs]

RECURSIVE CleanSegs(_, _, _)
\* filepath.Clean on the components: drops "." and empty components, resolves ".."
CleanSegs(abs, in, out) ==
    IF in = <<>> THEN out
    ELSE LET h == Head(in)
             t == Tail(in)
         IN  IF h = Dot \/ h = EmptyName THEN CleanSegs(abs, t, out)
             ELSE IF h = DotDot
             THEN IF out # <<>> /\ out[Len(out)] # DotDot
                  THEN CleanSegs(abs, t, SubSeq(out, 1, Len(out) - 1))
                  ELSE IF abs THEN CleanSegs(abs, t, out)
                  ELSE CleanSegs(abs, t, Append(out, DotDot))
             ELSE CleanSegs(abs, t, Append(out, h))

Clean(p) == [abs |-> p.abs, segs |-> CleanSegs(p.abs, p.segs, <<>>)]

\* filepath.Join(a, b): the elements joined with a separator, then cleaned; a
\* rooted b is appended like any other element
Join(a, b) == Clean([abs |-> a.abs, segs |-> a.segs \o b.segs])

\* filepath.Base(p): the last component, "." for the empty path
Base(p) ==
    LET c == Clean(p)
    IN  IF c.segs = <<>> THEN RelP(<<Dot>>) ELSE RelP(<<c.segs[Len(c.segs)]>>)

\* filepath.Dir(p): all but the last component
Dir(p) ==
    LET c == Clean(p)
    IN  IF c.segs = <<>> THEN c
        ELSE [abs |-> c.abs, segs |-> SubSeq(c.segs, 1, Len(c.segs) - 1)]

RECURSIVE CommonLen(_, _)
CommonLen(x, y) ==
    IF x = <<>> \/ y = <<>> THEN 0
    ELSE IF Head(x) = Head(y) THEN 1 + CommonLen(Tail(x), Tail(y))
    ELSE 0

\* filepath.Rel(base, targ): [ok, path]; an error when one is rooted and the other
\* is not, or when base keeps a ".." that cannot be undone
Rel(base, targ) ==
    LET b == Clean(base)
        t == Clean(targ)
        k == CommonLen(b.segs, t.segs)
        brest == SubSeq(b.segs, k + 1, Len(b.segs))
        trest == SubSeq(t.segs, k + 1, Len(t.segs))
    IN  IF b.abs # t.abs THEN [ok |-> FALSE, path |-> RelP(<<>>)]
        ELSE IF \E i \in 1..Len(brest) : brest[i] = DotDot
        THEN [ok |-> FALSE, path |-> RelP(<<>>)]
        ELSE [ok |-> TRUE,
              path |-> RelP([i \in 1..Len(brest) |-> DotDot] \o trest)]

\* whether a path value is the string "."
IsDot(p) == ~p.abs /\ CleanSegs(FALSE, p.segs, <<>>) = <<>>

(***************************************************************************)
(* The file system: files (absolute path -> content) and directories.     *)
(***************************************************************************)
\* the working directory the tool is started in (the project root)
Cwd == <<N("w")>>

\* the absolute components a path string denotes
Resolve(p) ==
    IF p.abs THEN CleanSegs(TRUE, p.segs, <<>>)
    ELSE CleanSegs(TRUE, Cwd \o p.segs, <<>>)

\* q is root or lies below it
Under(q, root) == Len(root) <= Len(q) /\ SubSeq(q, 1, Len(root)) = root

Prefixes(q) == {SubSeq(q, 1, k) : k \in 0..Len(q)}

IsFile(f, q) == q \in DOMAIN f.files

IsDir(f, q) == q \in f.dirs

\* exists(path): os.Stat succeeds
exists(f, p) == IsFile(f, Resolve(p)) \/ IsDir(f, Resolve(p))

\* os.MkdirAll(p): [ok, fs]; fails when a component of p is a file
MkdirAll(f, p) ==
    LET q == Resolve(p)
    IN  IF \E x \in Prefixes(q) : IsFile(f, x)
        THEN [ok |-> FALSE, fs |-> f]
        ELSE [ok |-> TRUE, fs |-> [f EXCEPT !.dirs = @ \cup Prefixes(q)]]

\* (mutant) a removal that removes nothing
RemoveAllNothing(f, p) == f

\* os.RemoveAll(p): p and everything below it
RemoveAll(f, p) ==
    LET q == Resolve(p)
        keep == {x \in DOMAIN f.files : ~Under(x, q)}
    IN  [files |-> [x \in keep |-> f.files[x]],
         dirs |-> {x \in f.dirs : ~Under(x, q)}]

\* os.Remove(p) of a file: [ok, fs]
Remove(f, p) ==
    LET q == Resolve(p)
    IN  IF IsFile(f, q)
        THEN [ok |-> TRUE,
              fs |-> [f EXCEPT !.files = [x \in DOMAIN f.files \ {q} |-> f.files[x]]]]
        ELSE [ok |-> FALSE, fs |-> f]

\* os.WriteFile(p, content): [ok, fs]; the directory must exist
WriteFile(f, p, content) ==
    LET q == Resolve(p)
    IN  IF q = <<>> \/ IsDir(f, q) \/ ~IsDir(f, SubSeq(q, 1, Len(q) - 1))
        THEN [ok |-> FALSE, fs |-> f]
        ELSE [ok |-> TRUE,
              fs |-> [f EXCEPT !.files =
                         [x \in DOMAIN f.files \cup {q} |->
                             IF x = q THEN content ELSE f.files[x]]]]

\* cp.Copy(src, dst) of github.com/otiai10/copy: [ok, fs].  A file is copied
\* onto dst (its directory is created); a directory is copied recursively into
\* dst, merging with what is there.  A missing source, or a file where a
\* directory is needed (or the reverse), is an error.
Copy(f, src, dst) ==
    LET s == Resolve(src)
        d == Resolve(dst)
        Map(q) == d \o SubSeq(q, Len(s) + 1, Len(q))
        srcFiles == {q \in DOMAIN f.files : Under(q, s)}
        srcDirs == {q \in f.dirs : Under(q, s)}
        newFiles == {Map(q) : q \in srcFiles}
        newDirs == UNION {Prefixes(Map(q)) : q \in srcDirs}
                       \cup UNION {Prefixes(Map(q)) \ {Map(q)} : q \in srcFiles}
        Origin(x) == CHOOSE q \in srcFiles : Map(q) = x
    IN  IF ~(IsFile(f, s) \/ IsDir(f, s)) THEN [ok |-> FALSE, fs |-> f]
        ELSE IF Under(d, s) /\ IsDir(f, s) THEN [ok |-> FALSE, fs |-> f]
        ELSE IF (\E x \in newFiles : IsDir(f, x) \/ x \in newDirs)
                  \/ (\E x \in newDirs : IsFile(f, x))
        THEN [ok |-> FALSE, fs |-> f]
        ELSE [ok |-> TRUE,
              fs |-> [files |-> [x \in DOMAIN f.files \cup newFiles |->
                                    IF x \in newFiles THEN f.files[Origin(x)]
                                    ELSE f.files[x]],
                      dirs |-> f.dirs \cup newDirs]]

\* the names in directory p, in os.ReadDir's order (sorted by name)
Children(f, p) ==
    LET q == Resolve(p)
    IN  {x[Len(q) + 1] : x \in {y \in DOMAIN f.files \cup f.dirs :
                                  Under(y, q) /\ Len(y) > Len(q)}}

RECURSIVE SortNames(_)
SortNames(S) ==
    IF S = {} THEN <<>>
    ELSE LET m == CHOOSE x \in S : \A y \in S \ {x} : NameLess(x, y)
         IN  <<m>> \o SortNames(S \ {m})

ReadDir(f, p) == SortNames(Children(f, p))

(***************************************************************************)
(* Config (type.go) and what is derived from it.                           *)
(***************************************************************************)
\* the "" of Go, as a name and as a path
EmptyPath == RelP(<<EmptyName>>)

File(segs) == RelP(segs)

Entry(file, from) == [File |-> file, From |-> from]

\* var InstallPath string = "/opt/"
InstallPath == AbsP(<<N("opt")>>)

\* MkdirTemp's directory in doBuild, and os.TempDir() in doInstall
TmpDir == AbsP(<<N("tmp")>>)

\* the directory of SystemdUnit.UnitPath
UnitDir == AbsP(<<N("usr"), N("lib"), N("systemd"), N("system")>>)

\* the scripts directory of GetBuildScript, GetInstallScript, GetUninstallScript
ScriptsDir == RelP(<<N(".qp")>>)

\* Config.GetBuildScript / GetInstallScript / GetUninstallScript: ".qp/" + name
GetScript(name) == RelP(ScriptsDir.segs \o <<name>>)

\* SystemdUnit.UnitName
UnitName(c) == IF c.SystemdRunAsUser THEN c.AppName \o <<"@">> ELSE c.AppName

\* (mutant) the commands aimed at the unit name, not at the wildcard
UnitNameWildcardPlain(c) == UnitName(c)

\* SystemdUnit.UnitNameWildcard
UnitNameWildcard(c) == IF c.SystemdRunAsUser THEN UnitName(c) \o <<"*">> ELSE UnitName(c)

\* SystemdUnit.UnitPath
UnitPath(c) == AbsP(UnitDir.segs \o <<UnitName(c) \o <<".service">>>>)

\* filepath.Join(InstallPath, cfg.AppName)
InstallDir(c) == Join(InstallPath, RelP(<<c.AppName>>))

\* SystemdUnit.GenerateDescription
GenerateDescription(c) ==
    IF c.SystemdRunAsUser THEN c.AppName \o <<" service running as user %i">>
    ELSE c.AppName \o <<" service">>

\* SystemdUnit.GetUser
GetUser(c) == IF c.SystemdRunAsUser THEN "%i" ELSE "root"

\* SystemdUnit.GenerateFile: the fields the template is filled with
GenerateFile(c) ==
    <<"unit", GenerateDescription(c), c.Exec, Resolve(InstallDir(c)), GetUser(c)>>

\* "qp_build_" + cfg.AppName + "_"
StagingPrefix(app) == <<"qp_build_">> \o app \o <<"_">>

\* (mutant) validation without the check of exec
validateConfigNoExec(c) ==
    /\ c.AppName # <<>>
    /\ Len(c.InstallFiles) # 0

\* validateConfig: TRUE when none of its three log.Fatal calls is reached
validateConfig(c) ==
    /\ c.AppName # EmptyName
    /\ Len(c.InstallFiles) # 0
    /\ ~(c.Systemd /\ c.Exec = "")

(***************************************************************************)
(* The project the tool is run in, and the configurations tried.           *)
(***************************************************************************)
SrcF == File(<<N("f")>>)

SrcD == File(<<N("d")>>)

SrcDE == File(<<N("d"), N("e")>>)

\* the file the build script writes into the staging directory
BuiltO == File(<<N("o")>>)

BuildSh == N("b.sh")

InstallSh == N("i.sh")

UninstallSh == N("u.sh")

\* a script name with no file under .qp
MissingSh == N("m.sh")

\* a literal pattern that matches nothing, a plain file, a wildcard
PatNone == File(<<N("g")>>)

PatStar == File(<<N("d"), N("*")>>)

\* a pattern with an unclosed character class (filepath.ErrBadPattern)
PatBad == File(<<N("[")>>)

InitFS ==
    [files |-> (Resolve(SrcF) :> <<"f">>) @@ (Resolve(SrcDE) :> <<"e">>)
                 @@ (Resolve(GetScript(BuildSh)) :> <<"b.sh">>)
                 @@ (Resolve(GetScript(InstallSh)) :> <<"i.sh">>)
                 @@ (Resolve(GetScript(UninstallSh)) :> <<"u.sh">>),
     dirs |-> Prefixes(Resolve(SrcD))
                 \cup Prefixes(Resolve(ScriptsDir))
                 \cup Prefixes(Resolve(TmpDir))
                 \cup Prefixes(Resolve(InstallPath))
                 \cup Prefixes(Resolve(UnitDir))]

AppNames == {EmptyName, <<"a">>}

\* a second app, whose name is the first one's followed by "_b"
OtherApp == <<"a", "_", "b">>

\* the services the service manager knows
Services == AppNames \cup {OtherApp}

BuildFileLists == {<<PatNone, SrcF, PatStar>>, <<PatBad>>}

InstallFileLists ==
    { <<>>,
      <<Entry(SrcF, "cwd")>>,
      <<Entry(SrcF, "cwd"), Entry(BuiltO, "build")>>,
      <<Entry(File(<<Dot>>), "build")>>,
      <<Entry(SrcDE, "cwd"), Entry(SrcF, "tmp")>>,
      <<Entry(SrcF, "build"), Entry(SrcD, "cwd")>> }

AllConfigs ==
    [AppName : AppNames,
     BuildFiles : BuildFileLists,
     InstallFiles : InstallFileLists,
     BuildScript : {EmptyName, BuildSh},
     InstallScript : {EmptyName, InstallSh},
     UninstallScript : {EmptyName, UninstallSh, MissingSh},
     Systemd : BOOLEAN,
     SystemdRunAsUser : BOOLEAN,
     Exec : {"", "x"}]

\* a service-managed app with every script and a file from each provenance
FullConfig ==
    [AppName |-> <<"a">>,
     BuildFiles |-> <<PatNone, SrcF, PatStar>>,
     InstallFiles |-> <<Entry(SrcF, "cwd"), Entry(BuiltO, "build")>>,
     BuildScript |-> BuildSh,
     InstallScript |-> InstallSh,
     UninstallScript |-> UninstallSh,
     Systemd |-> TRUE,
     SystemdRunAsUser |-> FALSE,
     Exec |-> "x"]

\* an app with one file from the working tree, no script and no service
PlainConfig ==
    [AppName |-> <<"a">>,
     BuildFiles |-> <<PatNone, SrcF, PatStar>>,
     InstallFiles |-> <<Entry(SrcF, "cwd")>>,
     BuildScript |-> EmptyName,
     InstallScript |-> EmptyName,
     UninstallScript |-> EmptyName,
     Systemd |-> FALSE,
     SystemdRunAsUser |-> FALSE,
     Exec |-> "x"]

\* the fields in which two configurations differ
Diff(c, d) == {k \in DOMAIN c : c[k] # d[k]}

\* the configurations tried: the two above and every configuration that
\* differs from one of them in one field
Configs ==
    {c \in AllConfigs : \/ Cardinality(Diff(c, FullConfig)) <= 1
                        \/ Cardinality(Diff(c, PlainConfig)) <= 1}

(***************************************************************************)
(* Helpers of main.go.                                                     *)
(***************************************************************************)
\* filepath.Glob(pattern) in the working directory: [ok, matches], the matches
\* in sorted order.  A pattern is a literal path, a path whose last component
\* is "*", or malformed.
Glob(f, pattern) ==
    LET n == Len(pattern.segs)
        dir == RelP(SubSeq(pattern.segs, 1, n - 1))
    IN  IF \E i \in 1..n : pattern.segs[i] = N("[")
        THEN [ok |-> FALSE, matches |-> <<>>]
        ELSE IF n > 0 /\ pattern.segs[n] = N("*")
        THEN LET names == ReadDir(f, dir)
             IN  [ok |-> TRUE,
                  matches |-> [i \in 1..Len(names) |-> RelP(dir.segs \o <<names[i]>>)]]
        ELSE [ok |-> TRUE,
              matches |-> IF exists(f, pattern) THEN <<pattern>> ELSE <<>>]

\* copyPreserveRelBase(src, baseDir, dstRoot): [ok, fs, dst]; io is whether the
\* operating system lets the directory creation and the copy through
copyPreserveRelBase(f, src, baseDir, dstRoot, io) ==
    LET RelPath(r) == IF IsDot(r.path) THEN Base(src) ELSE r.path
        Result(c, dst) == [ok |-> c.ok, fs |-> c.fs, dst |-> dst]
        Copied(made, dst) ==
            IF ~io \/ ~made.ok THEN [ok |-> FALSE, fs |-> f, dst |-> dst]
            ELSE Result(Copy(made.fs, src, dst), dst)
        Made(dst) == Copied(MkdirAll(f, Dir(dst)), dst)
        Placed(r) ==
            IF ~r.ok THEN [ok |-> FALSE, fs |-> f, dst |-> Join(dstRoot, r.path)]
            ELSE Made(Join(dstRoot, RelPath(r)))
    IN  Placed(Rel(baseDir, src))

RECURSIVE CopyMatches(_, _, _, _)
\* doBuild's inner loop: the matches of one pattern, in order, until one fails
CopyMatches(f, matches, dstRoot, io) ==
    IF matches = <<>> THEN [ok |-> TRUE, fs |-> f]
    ELSE LET Rest(c) == IF ~c.ok THEN [ok |-> FALSE, fs |-> c.fs]
                         ELSE CopyMatches(c.fs, Tail(matches), dstRoot, io)
         IN  Rest(copyPreserveRelBase(f, Head(matches), RelP(<<Dot>>), dstRoot, io))

\* the entries of the temp directory whose name has the app's prefix, in
\* os.ReadDir's order
StagingDirs(f, app) ==
    SelectSeq(ReadDir(f, TmpDir), LAMBDA n : HasPrefix(n, StagingPrefix(app)))

\* findTempBuildDir(appName): the first match, "" when the directory cannot be
\* read or nothing matches
findTempBuildDir(f, app, readable) ==
    IF ~readable \/ StagingDirs(f, app) = <<>> THEN EmptyPath
    ELSE Join(TmpDir, RelP(<<StagingDirs(f, app)[1]>>))

\* what is under the install root: the files (path below the root -> content)
Root(f, c) ==
    LET r == Resolve(InstallDir(c))
        below == {q \in DOMAIN f.files : Under(q, r)}
    IN  [present |-> IsDir(f, r),
         files |-> {<<SubSeq(q, Len(r) + 1, Len(q)), f.files[q]>> : q \in below}]

(***************************************************************************)
(* State.                                                                  *)
(***************************************************************************)
VARIABLES
    fs,        \* the file system: [files, dirs]
    svc,       \* per app, the service: "inactive", "active", "stopping"
    enabled,   \* per app, whether the unit is enabled
    live,      \* the invocations that may run in this behaviour
    cfg,       \* per invocation, the loaded Config
    act,       \* per invocation, os.Args[1]
    pc,        \* per invocation, the position in the code
    buildDir,  \* per invocation, doBuild's buildDir
    foundDir,  \* per invocation, doInstall's buildDir (findTempBuildDir's result)
    staged,    \* per invocation, what foundDir held when it was found (history)
    idx,       \* per invocation, the index of the range loop it is in
    trace,     \* per invocation, what the run has done so far (history)
    runs,      \* the invocations started so far
    faults,    \* the commands the environment made fail so far
    prev       \* how the run before this one ended, and the install root it left (history)

vars == <<fs, svc, enabled, live, cfg, act, pc, buildDir, foundDir, staged, idx, trace,
          runs, faults, prev>>

Procs == {"p1", "p2"}

\* the first command-line argument: the three actions and one main rejects
Actions == {"build", "install", "uninstall", "status"}

\* the suffixes os.MkdirTemp draws from
Suffixes == {"1", "2"}

Ev(op, arg, res) == [op |-> op, arg |-> arg, res |-> res]

\* the outcomes the environment may give a command: it fails at most MaxFaults
\* commands in one behaviour
Env == IF faults < MaxFaults THEN BOOLEAN ELSE {TRUE}

Fault(b) == IF b THEN 1 ELSE 0

Ended(p) == pc[p] \in {"idle", "done", "fatal"}

\* the services an app's unit name stands for
App(p) == cfg[p].AppName

(***************************************************************************)
(* Where the code goes next.                                               *)
(***************************************************************************)
\* main's switch: the first step of each action
Dispatch(a, c) ==
    IF a = "uninstall" THEN (IF c.Systemd THEN "u_stop" ELSE "u_stage")
    ELSE "b_mkdir"

\* doBuild's range over cfg.BuildFiles: the next pattern, or the script
BuildLoop(c, i) == IF i <= Len(c.BuildFiles) THEN "b_glob" ELSE "b_stage"

\* (mutant) a pattern without a match treated as a failure
GlobResultStrict(globOk, nMatches, copyOk) ==
    IF ~globOk THEN "bad"
    ELSE IF ~copyOk \/ nMatches = 0 THEN "fail"
    ELSE "ok"

\* doBuild on one pattern: a malformed pattern and a failed copy are fatal, no
\* match is a warning
GlobResult(globOk, nMatches, copyOk) ==
    IF ~globOk THEN "bad"
    ELSE IF ~copyOk THEN "fail"
    ELSE IF nMatches = 0 THEN "warn"
    ELSE "ok"

\* (mutant) the build action falls through into doInstall
AfterBuildFallsThrough(a, c) == IF c.Systemd THEN "i_check" ELSE "i_mkdir"

\* doBuild returned: build is over, install goes on with doInstall, whose first
\* statement is the if cfg.Systemd of the pre-install stop
AfterBuild(a, c) ==
    IF a = "install" THEN (IF c.Systemd THEN "i_check" ELSE "i_mkdir")
    ELSE "done"

\* (mutant) the error of systemctl stop dropped
AfterStopIgnored(ok) == "i_wait"

\* doInstall after systemctl stop: log.Fatalf when the command failed, else
\* the wait loop
AfterStop(ok) == IF ok THEN "i_wait" ELSE "fatal"

\* (mutant) the loop's test inverted: it is left while the service is active
AfterWaitInverted(active) == IF active THEN "i_mkdir" ELSE "i_wait"

\* (mutant) the wait loop left after one check, whatever it reports
AfterWaitOnce(active) == "i_mkdir"

\* doInstall's wait loop: break when is-active reports an error
AfterWait(active) == IF active THEN "i_wait" ELSE "i_mkdir"

\* (mutant) the unit brought up right after the files, before the script
InstallLoopUnitFirst(c, i) ==
    IF i <= Len(c.InstallFiles) THEN "i_entry"
    ELSE IF c.Systemd THEN "i_unit" ELSE "i_stage"

\* doInstall's range over cfg.InstallFiles: the next entry, or the script
InstallLoop(c, i) == IF i <= Len(c.InstallFiles) THEN "i_entry" ELSE "i_stage"

\* (mutant) the unit installed without looking at cfg.Systemd
AfterInstallScriptAlways(c) == "i_unit"

\* doInstall after the install script: if cfg.Systemd, the unit; then cleanup
AfterInstallScript(c) == IF c.Systemd THEN "i_unit" ELSE "i_cleanup"

\* what systemctl is-active --quiet reports
IsActive(s) == s \in {"active", "stopping"}

(***************************************************************************)
(* Steps.  Step(p, to, e, f, fault) moves invocation p to `to`, logs event *)
(* e and leaves the file system f; fault counts the commands of the step   *)
(* that the environment made fail.                                         *)
(***************************************************************************)
Step(p, to, e, f, fault) ==
    /\ pc' = [pc EXCEPT ![p] = to]
    /\ faults' = faults + fault
    /\ trace' = [trace EXCEPT ![p] = Append(@, e)]
    /\ fs' = f
    /\ UNCHANGED <<live, cfg, act, runs, prev>>

\* a transfer of control that does nothing else
Jump(p, to) ==
    /\ pc' = [pc EXCEPT ![p] = to]
    /\ UNCHANGED <<fs, trace, live, cfg, act, runs, prev, faults>>

Init ==
    /\ fs = InitFS
    /\ svc = [a \in Services |-> "inactive"]
    /\ enabled = [a \in Services |-> FALSE]
    /\ live = {"p1"}
    /\ cfg \in [Procs -> Configs]
    /\ cfg["p2"] = cfg["p1"]
    /\ act = [p \in Procs |-> "build"]
    /\ pc = [p \in Procs |-> "idle"]
    /\ buildDir = [p \in Procs |-> EmptyPath]
    /\ foundDir = [p \in Procs |-> EmptyPath]
    /\ staged = [p \in Procs |-> {}]
    /\ idx = [p \in Procs |-> 0]
    /\ trace = [p \in Procs |-> <<>>]
    /\ runs = 0
    /\ faults = 0
    /\ prev = [act |-> "none", end |-> "none", root |-> Root(InitFS, cfg["p1"])]

\* the operator runs the tool: a new process, one of the actions
Start(p) ==
    /\ p \in live
    /\ Ended(p)
    /\ \A q \in live : Ended(q)
    /\ runs < MaxRuns
    /\ \E a \in Actions : act' = [act EXCEPT ![p] = a]
    /\ pc' = [pc EXCEPT ![p] = "main"]
    /\ trace' = [trace EXCEPT ![p] = <<>>]
    /\ buildDir' = [buildDir EXCEPT ![p] = EmptyPath]
    /\ foundDir' = [foundDir EXCEPT ![p] = EmptyPath]
    /\ staged' = [staged EXCEPT ![p] = {}]
    /\ idx' = [idx EXCEPT ![p] = 0]
    /\ runs' = runs + 1
    /\ prev' = [act |-> IF pc[p] = "idle" THEN "none" ELSE act[p],
                 end |-> IF pc[p] = "idle" THEN "none" ELSE pc[p],
                 root |-> Root(fs, cfg[p])]
    /\ UNCHANGED <<fs, svc, enabled, live, cfg, faults>>

\* main: the action check, loadConfig, validateConfig, the switch
Main(p) ==
    /\ pc[p] = "main"
    /\ IF act[p] \notin {"build", "install", "uninstall"}
       THEN Step(p, "fatal", Ev("usage", <<>>, "fail"), fs, 0)
       ELSE \E loaded \in Env :
               IF ~loaded
               THEN Step(p, "fatal", Ev("load-config", <<>>, "fail"), fs, Fault(~loaded))
               ELSE IF ~validateConfig(cfg[p])
               THEN Step(p, "fatal", Ev("validate", <<>>, "fail"), fs, Fault(~loaded))
               ELSE Step(p, Dispatch(act[p], cfg[p]), Ev("validate", <<>>, "ok"), fs,
                         Fault(~loaded))
    /\ UNCHANGED <<svc, enabled, buildDir, foundDir, staged, idx>>

(***************************************************************************)
(* doBuild.                                                                *)
(***************************************************************************)
\* os.MkdirTemp("/tmp", "qp_build_"+cfg.AppName+"_")
B_MkdirTemp(p) ==
    /\ pc[p] = "b_mkdir"
    /\ \E ok \in Env, sfx \in Suffixes :
          LET path == Join(TmpDir, RelP(<<StagingPrefix(App(p)) \o <<sfx>>>>))
          IN  IF ~ok
              THEN /\ Step(p, "fatal", Ev("mkdtemp", <<>>, "fail"), fs, Fault(~ok))
                   /\ UNCHANGED <<buildDir, idx>>
              ELSE /\ ~exists(fs, path)
                   /\ Step(p, BuildLoop(cfg[p], 1), Ev("mkdtemp", Resolve(path), "ok"),
                           MkdirAll(fs, path).fs, Fault(~ok))
                   /\ buildDir' = [buildDir EXCEPT ![p] = path]
                   /\ idx' = [idx EXCEPT ![p] = 1]
    /\ UNCHANGED <<svc, enabled, foundDir, staged>>

\* one pattern of cfg.BuildFiles: Glob, the warning, the copies
B_Glob(p) ==
    /\ pc[p] = "b_glob"
    /\ \E io \in Env :
       \E g \in {Glob(fs, cfg[p].BuildFiles[idx[p]])} :
       \E r \in {CopyMatches(fs, g.matches, buildDir[p], io)} :
       \E res \in {GlobResult(g.ok, Len(g.matches), r.ok)} :
              IF res \in {"bad", "fail"}
              THEN /\ Step(p, "fatal", Ev("glob", <<>>, res), r.fs,
                           Fault(g.ok /\ ~r.ok /\ ~io))
                   /\ UNCHANGED idx
              ELSE /\ Step(p, BuildLoop(cfg[p], idx[p] + 1), Ev("glob", <<>>, res), r.fs,
                           Fault(~io))
                   /\ idx' = [idx EXCEPT ![p] = idx[p] + 1]
    /\ UNCHANGED <<svc, enabled, buildDir, foundDir, staged>>

\* the build script is copied into the staging directory unless it is there
B_Stage(p) ==
    /\ pc[p] = "b_stage"
    /\ LET scriptPath == Join(buildDir[p], Base(RelP(<<cfg[p].BuildScript>>)))
       IN  IF cfg[p].BuildScript = EmptyName
           THEN Jump(p, AfterBuild(act[p], cfg[p]))
           ELSE IF exists(fs, scriptPath)
           THEN Jump(p, "b_run")
           ELSE \E io \in Env :
                   LET c == Copy(fs, GetScript(cfg[p].BuildScript), scriptPath)
                   IN  IF io /\ c.ok
                       THEN Step(p, "b_run", Ev("stage-build", <<>>, "ok"), c.fs, Fault(~io))
                       ELSE Step(p, "fatal", Ev("stage-build", <<>>, "fail"), fs, Fault(~io))
    /\ UNCHANGED <<svc, enabled, buildDir, foundDir, staged, idx>>

\* (mutant) the exit status of the build script not looked at
B_RunUnchecked(p) ==
    /\ pc[p] = "b_run"
    /\ \E exit0 \in Env :
          Step(p, AfterBuild(act[p], cfg[p]),
               Ev("run-build", <<>>, IF exit0 THEN "ok" ELSE "fail"),
               IF exit0 THEN WriteFile(fs, Join(buildDir[p], BuiltO), <<"built">>).fs ELSE fs,
               Fault(~exit0))
    /\ UNCHANGED <<svc, enabled, buildDir, foundDir, staged, idx>>

\* /bin/bash scriptPath in the staging directory; the script writes its output
B_Run(p) ==
    /\ pc[p] = "b_run"
    /\ \E exit0 \in Env :
          IF exit0
          THEN Step(p, AfterBuild(act[p], cfg[p]), Ev("run-build", <<>>, "ok"),
                    WriteFile(fs, Join(buildDir[p], BuiltO), <<"built">>).fs, Fault(~exit0))
          ELSE Step(p, "fatal", Ev("run-build", <<>>, "fail"), fs, Fault(~exit0))
    /\ UNCHANGED <<svc, enabled, buildDir, foundDir, staged, idx>>

(***************************************************************************)
(* doInstall.                                                              *)
(***************************************************************************)
\* systemctl is-active --quiet <wildcard>: the first check
I_Check(p) ==
    /\ pc[p] = "i_check"
    /\ LET active == IsActive(svc[App(p)])
       IN  Step(p, IF active THEN "i_stop" ELSE "i_mkdir",
                Ev("is-active", UnitNameWildcard(cfg[p]),
                   IF active THEN "active" ELSE "inactive"), fs, 0)
    /\ UNCHANGED <<svc, enabled, buildDir, foundDir, staged, idx>>

\* systemctl stop <wildcard>; the service may take a while to go down
I_Stop(p) ==
    /\ pc[p] = "i_stop"
    /\ \E ok \in Env, s \in {"inactive", "stopping"} :
          /\ svc' = [svc EXCEPT ![App(p)] = IF ok THEN s ELSE @]
          /\ Step(p, AfterStop(ok),
                  Ev("stop", UnitNameWildcard(cfg[p]), IF ok THEN "ok" ELSE "fail"), fs,
                  Fault(~ok))
    /\ UNCHANGED <<enabled, buildDir, foundDir, staged, idx>>

\* the wait loop: is-active again, sleep a second while it reports active
I_Wait(p) ==
    /\ pc[p] = "i_wait"
    /\ LET active == IsActive(svc[App(p)])
       IN  IF AfterWait(active) = "i_wait"
           THEN UNCHANGED <<fs, pc, trace, prev, live, cfg, act, runs, faults>>
           ELSE Step(p, AfterWait(active),
                     Ev("is-active", UnitNameWildcard(cfg[p]),
                        IF active THEN "active" ELSE "inactive"), fs, 0)
    /\ UNCHANGED <<svc, enabled, buildDir, foundDir, staged, idx>>

\* the service manager finishes stopping a service
ServiceStopped(a) ==
    /\ svc[a] = "stopping"
    /\ svc' = [svc EXCEPT ![a] = "inactive"]
    /\ UNCHANGED <<fs, enabled, live, cfg, act, pc, buildDir, foundDir, staged, idx,
                   trace, runs, faults, prev>>

\* os.MkdirAll(installDir)
I_Mkdir(p) ==
    /\ pc[p] = "i_mkdir"
    /\ \E io \in Env :
          LET m == MkdirAll(fs, InstallDir(cfg[p]))
          IN  IF io /\ m.ok
              THEN Step(p, "i_find", Ev("mkdir", Resolve(InstallDir(cfg[p])), "ok"), m.fs, Fault(~io))
              ELSE Step(p, "fatal", Ev("mkdir", Resolve(InstallDir(cfg[p])), "fail"), fs, Fault(~io))
    /\ UNCHANGED <<svc, enabled, buildDir, foundDir, staged, idx>>

\* (mutant) an install given up when no staging directory is found
I_FindStrict(p) ==
    /\ pc[p] = "i_find"
    /\ \E readable \in Env :
       \E d \in {findTempBuildDir(fs, App(p), readable)} :
          /\ foundDir' = [foundDir EXCEPT ![p] = d]
          /\ staged' = [staged EXCEPT ![p] = {}]
          /\ Step(p, IF d = EmptyPath THEN "fatal" ELSE InstallLoop(cfg[p], 1),
                  Ev("find", IF d = EmptyPath THEN <<>> ELSE Resolve(d),
                     IF d = EmptyPath THEN "fail" ELSE "ok"), fs, Fault(~readable))
    /\ idx' = [idx EXCEPT ![p] = 1]
    /\ UNCHANGED <<svc, enabled, buildDir>>

\* buildDir, _ := findTempBuildDir(cfg.AppName)
I_Find(p) ==
    /\ pc[p] = "i_find"
    /\ \E readable \in Env :
          LET d == findTempBuildDir(fs, App(p), readable)
              r == Resolve(d)
          IN  /\ foundDir' = [foundDir EXCEPT ![p] = d]
              /\ staged' = [staged EXCEPT ![p] =
                     IF d = EmptyPath THEN {}
                     ELSE {<<SubSeq(q, Len(r) + 1, Len(q)), fs.files[q]>> :
                              q \in {x \in DOMAIN fs.files : Under(x, r)}}]
              /\ Step(p, InstallLoop(cfg[p], 1),
                      Ev("find", IF d = EmptyPath THEN <<>> ELSE r, "ok"), fs, Fault(~readable))
    /\ idx' = [idx EXCEPT ![p] = 1]
    /\ UNCHANGED <<svc, enabled, buildDir>>

\* (mutant) an entry that cannot be copied is passed over
I_EntrySkip(p) ==
    /\ pc[p] = "i_entry"
    /\ LET e == cfg[p].InstallFiles[idx[p]]
           srcPath == IF e.From = "cwd" THEN e.File ELSE Join(foundDir[p], e.File)
           baseDir == IF e.From = "cwd" THEN RelP(<<Dot>>) ELSE foundDir[p]
       IN  IF \/ e.From \notin {"cwd", "build"}
              \/ (e.From = "build" /\ foundDir[p] = EmptyPath)
              \/ ~exists(fs, srcPath)
           THEN Step(p, InstallLoop(cfg[p], idx[p] + 1), Ev("entry", <<>>, "skipped"), fs, 0)
           ELSE \E io \in Env :
                \E c \in {copyPreserveRelBase(fs, srcPath, baseDir,
                                               InstallDir(cfg[p]), io)} :
                       Step(p, IF c.ok THEN InstallLoop(cfg[p], idx[p] + 1) ELSE "fatal",
                            Ev("copy", Resolve(c.dst), IF c.ok THEN "ok" ELSE "fail"),
                            c.fs, Fault(~io))
    /\ idx' = [idx EXCEPT ![p] = IF pc'[p] = "fatal" THEN @ ELSE @ + 1]
    /\ UNCHANGED <<svc, enabled, buildDir, foundDir, staged>>

\* one entry of cfg.InstallFiles
I_Entry(p) ==
    /\ pc[p] = "i_entry"
    /\ LET e == cfg[p].InstallFiles[idx[p]]
           srcPath == IF e.From = "cwd" THEN e.File ELSE Join(foundDir[p], e.File)
           baseDir == IF e.From = "cwd" THEN RelP(<<Dot>>) ELSE foundDir[p]
       IN  IF e.From \notin {"cwd", "build"}
           THEN /\ Step(p, "fatal", Ev("entry", <<>>, "unknown-from"), fs, 0)
                /\ UNCHANGED idx
           ELSE IF e.From = "build" /\ foundDir[p] = EmptyPath
           THEN /\ Step(p, "fatal", Ev("entry", <<>>, "no-build-dir"), fs, 0)
                /\ UNCHANGED idx
           ELSE IF ~exists(fs, srcPath)
           THEN /\ Step(p, "fatal", Ev("entry", <<>>, "missing"), fs, 0)
                /\ UNCHANGED idx
           ELSE \E io \in Env :
                \E c \in {copyPreserveRelBase(fs, srcPath, baseDir,
                                               InstallDir(cfg[p]), io)} :
                       IF c.ok
                       THEN /\ Step(p, InstallLoop(cfg[p], idx[p] + 1),
                                    Ev("copy", Resolve(c.dst), "ok"), c.fs, Fault(~io))
                            /\ idx' = [idx EXCEPT ![p] = idx[p] + 1]
                       ELSE /\ Step(p, "fatal", Ev("copy", Resolve(c.dst), "fail"), c.fs, Fault(~io))
                            /\ UNCHANGED idx
    /\ UNCHANGED <<svc, enabled, buildDir, foundDir, staged>>

\* (mutant) a script that is already in the install root is not run again
I_StageOnce(p) ==
    /\ pc[p] = "i_stage"
    /\ LET scriptPath == Join(InstallDir(cfg[p]), Base(RelP(<<cfg[p].InstallScript>>)))
       IN  IF cfg[p].InstallScript = EmptyName \/ exists(fs, scriptPath)
           THEN Jump(p, AfterInstallScript(cfg[p]))
           ELSE \E io \in Env :
                   LET c == Copy(fs, GetScript(cfg[p].InstallScript), scriptPath)
                   IN  IF io /\ c.ok
                       THEN Step(p, "i_run", Ev("stage-install", Resolve(scriptPath), "ok"),
                                 c.fs, Fault(~io))
                       ELSE Step(p, "fatal",
                                 Ev("stage-install", Resolve(scriptPath), "fail"), fs, Fault(~io))
    /\ UNCHANGED <<svc, enabled, buildDir, foundDir, staged, idx>>

\* the install script is copied into the install root unless it is there
I_Stage(p) ==
    /\ pc[p] = "i_stage"
    /\ LET scriptPath == Join(InstallDir(cfg[p]), Base(RelP(<<cfg[p].InstallScript>>)))
       IN  IF cfg[p].InstallScript = EmptyName
           THEN Jump(p, AfterInstallScript(cfg[p]))
           ELSE IF exists(fs, scriptPath)
           THEN Jump(p, "i_run")
           ELSE \E io \in Env :
                   LET c == Copy(fs, GetScript(cfg[p].InstallScript), scriptPath)
                   IN  IF io /\ c.ok
                       THEN Step(p, "i_run", Ev("stage-install", Resolve(scriptPath), "ok"),
                                 c.fs, Fault(~io))
                       ELSE Step(p, "fatal",
                                 Ev("stage-install", Resolve(scriptPath), "fail"), fs, Fault(~io))
    /\ UNCHANGED <<svc, enabled, buildDir, foundDir, staged, idx>>

\* (mutant) the install root taken away when the install script fails
I_RunRollback(p) ==
    /\ pc[p] = "i_run"
    /\ \E exit0 \in Env :
          IF exit0
          THEN Step(p, AfterInstallScript(cfg[p]), Ev("run-install", <<>>, "ok"), fs, Fault(~exit0))
          ELSE Step(p, "fatal", Ev("run-install", <<>>, "fail"),
                    RemoveAll(fs, InstallDir(cfg[p])), Fault(~exit0))
    /\ UNCHANGED <<svc, enabled, buildDir, foundDir, staged, idx>>

\* runScript(scriptPath, installDir)
I_Run(p) ==
    /\ pc[p] = "i_run"
    /\ \E exit0 \in Env :
          IF exit0
          THEN Step(p, AfterInstallScript(cfg[p]), Ev("run-install", <<>>, "ok"), fs, Fault(~exit0))
          ELSE Step(p, "fatal", Ev("run-install", <<>>, "fail"), fs, Fault(~exit0))
    /\ UNCHANGED <<svc, enabled, buildDir, foundDir, staged, idx>>

\* installSystemdUnit: os.WriteFile(unit.UnitPath(), unit.GenerateFile())
I_Unit(p) ==
    /\ pc[p] = "i_unit"
    /\ \E io \in Env :
          LET w == WriteFile(fs, UnitPath(cfg[p]), GenerateFile(cfg[p]))
          IN  IF io /\ w.ok
              THEN Step(p, "i_reload", Ev("write-unit", Resolve(UnitPath(cfg[p])), "ok"),
                        w.fs, Fault(~io))
              ELSE Step(p, "fatal", Ev("write-unit", Resolve(UnitPath(cfg[p])), "fail"),
                        fs, Fault(~io))
    /\ UNCHANGED <<svc, enabled, buildDir, foundDir, staged, idx>>

\* (mutant) a failed daemon-reload is passed over
I_ReloadIgnored(p) ==
    /\ pc[p] = "i_reload"
    /\ \E ok \in Env :
          Step(p, "i_enable", Ev("daemon-reload", <<>>, IF ok THEN "ok" ELSE "fail"), fs, Fault(~ok))
    /\ UNCHANGED <<svc, enabled, buildDir, foundDir, staged, idx>>

\* installSystemdUnit: systemctl daemon-reload
I_Reload(p) ==
    /\ pc[p] = "i_reload"
    /\ \E ok \in Env :
          IF ok
          THEN Step(p, "i_enable", Ev("daemon-reload", <<>>, "ok"), fs, Fault(~ok))
          ELSE Step(p, "fatal", Ev("daemon-reload", <<>>, "fail"), fs, Fault(~ok))
    /\ UNCHANGED <<svc, enabled, buildDir, foundDir, staged, idx>>

\* what a successful start of the unit name leaves the service in: a plain
\* name is started; a wildcard starts only what it matches
Started(c, s) == IF c.SystemdRunAsUser THEN {s, "active"} ELSE {"active"}

\* installSystemdUnit: systemctl enable --now <wildcard>
I_Enable(p) ==
    /\ pc[p] = "i_enable"
    /\ \E ok \in Env, s \in Started(cfg[p], svc[App(p)]) :
          IF ok
          THEN /\ svc' = [svc EXCEPT ![App(p)] = s]
               /\ enabled' = [enabled EXCEPT ![App(p)] = TRUE]
               /\ Step(p, "i_start", Ev("enable", UnitNameWildcard(cfg[p]), "ok"), fs, Fault(~ok))
          ELSE /\ UNCHANGED <<svc, enabled>>
               /\ Step(p, "fatal", Ev("enable", UnitNameWildcard(cfg[p]), "fail"), fs, Fault(~ok))
    /\ UNCHANGED <<buildDir, foundDir, staged, idx>>

\* systemctl start <wildcard>
I_Start(p) ==
    /\ pc[p] = "i_start"
    /\ \E ok \in Env, s \in Started(cfg[p], svc[App(p)]) :
          IF ok
          THEN /\ svc' = [svc EXCEPT ![App(p)] = s]
               /\ Step(p, "i_cleanup", Ev("start", UnitNameWildcard(cfg[p]), "ok"), fs, Fault(~ok))
          ELSE /\ UNCHANGED svc
               /\ Step(p, "fatal", Ev("start", UnitNameWildcard(cfg[p]), "fail"), fs, Fault(~ok))
    /\ UNCHANGED <<enabled, buildDir, foundDir, staged, idx>>

RECURSIVE RemoveDirs(_, _, _)
\* os.RemoveAll on each staging directory but the ones that cannot be removed
RemoveDirs(f, names, kept) ==
    IF names = <<>> THEN f
    ELSE RemoveDirs(IF Head(names) \in kept THEN f
                    ELSE RemoveAll(f, Join(TmpDir, RelP(<<Head(names)>>))),
                    Tail(names), kept)

\* (mutant) an install removes the staging directory of its own build only
I_CleanupOwn(p) ==
    /\ pc[p] = "i_cleanup"
    /\ \E readable \in Env :
          IF ~readable
          THEN Step(p, "done", Ev("cleanup", <<>>, "warn"), fs, Fault(~readable))
          ELSE Step(p, "done", Ev("cleanup", <<>>, "ok"), RemoveAll(fs, buildDir[p]), 0)
    /\ UNCHANGED <<svc, enabled, buildDir, foundDir, staged, idx>>

\* (mutant) only the staging directory that was used is removed
I_CleanupUsedOnly(p) ==
    /\ pc[p] = "i_cleanup"
    /\ \E readable \in Env :
          IF ~readable \/ foundDir[p] = EmptyPath
          THEN Step(p, "done", Ev("cleanup", <<>>, IF readable THEN "ok" ELSE "warn"), fs,
                    Fault(~readable))
          ELSE Step(p, "done", Ev("cleanup", <<>>, "ok"), RemoveAll(fs, foundDir[p]), 0)
    /\ UNCHANGED <<svc, enabled, buildDir, foundDir, staged, idx>>

\* the end of doInstall: every entry of the temp directory with the app's
\* prefix is removed; errors are not looked at
I_Cleanup(p) ==
    /\ pc[p] = "i_cleanup"
    /\ \E readable \in Env :
          LET names == StagingDirs(fs, App(p))
          IN  IF ~readable
              THEN Step(p, "done", Ev("cleanup", <<>>, "warn"), fs, Fault(~readable))
              ELSE \E kept \in {K \in SUBSET {names[i] : i \in 1..Len(names)} :
                                     faults + Cardinality(K) <= MaxFaults} :
                      Step(p, "done", Ev("cleanup", <<>>, IF kept = {} THEN "ok" ELSE "kept"),
                           RemoveDirs(fs, names, kept), Cardinality(kept))
    /\ UNCHANGED <<svc, enabled, buildDir, foundDir, staged, idx>>

(***************************************************************************)
(* doUninstall.                                                            *)
(***************************************************************************)
\* exec.Command("systemctl", "stop", <wildcard>).Run(), error dropped
U_Stop(p) ==
    /\ pc[p] = "u_stop"
    /\ \E ok \in Env :
          /\ svc' = [svc EXCEPT ![App(p)] = IF ok THEN "inactive" ELSE @]
          /\ Step(p, "u_disable",
                  Ev("stop", UnitNameWildcard(cfg[p]), IF ok THEN "ok" ELSE "fail"), fs, Fault(~ok))
    /\ UNCHANGED <<enabled, buildDir, foundDir, staged, idx>>

\* (mutant) uninstall given up when systemctl disable fails
U_DisableChecked(p) ==
    /\ pc[p] = "u_disable"
    /\ \E ok \in Env :
          /\ enabled' = [enabled EXCEPT ![App(p)] = IF ok THEN FALSE ELSE @]
          /\ Step(p, IF ok THEN "u_rmunit" ELSE "fatal",
                  Ev("disable", UnitNameWildcard(cfg[p]), IF ok THEN "ok" ELSE "fail"), fs, Fault(~ok))
    /\ UNCHANGED <<svc, buildDir, foundDir, staged, idx>>

\* exec.Command("systemctl", "disable", <wildcard>).Run(), error dropped
U_Disable(p) ==
    /\ pc[p] = "u_disable"
    /\ \E ok \in Env :
          /\ enabled' = [enabled EXCEPT ![App(p)] = IF ok THEN FALSE ELSE @]
          /\ Step(p, "u_rmunit",
                  Ev("disable", UnitNameWildcard(cfg[p]), IF ok THEN "ok" ELSE "fail"), fs, Fault(~ok))
    /\ UNCHANGED <<svc, buildDir, foundDir, staged, idx>>

\* os.Remove(unit.UnitPath()), error dropped
U_RemoveUnit(p) ==
    /\ pc[p] = "u_rmunit"
    /\ \E io \in Env :
          LET r == Remove(fs, UnitPath(cfg[p]))
          IN  Step(p, "u_reload",
                   Ev("remove-unit", Resolve(UnitPath(cfg[p])),
                      IF io /\ r.ok THEN "ok" ELSE "fail"),
                   IF io THEN r.fs ELSE fs, Fault(~io))
    /\ UNCHANGED <<svc, enabled, buildDir, foundDir, staged, idx>>

\* exec.Command("systemctl", "daemon-reload").Run(), error dropped
U_Reload(p) ==
    /\ pc[p] = "u_reload"
    /\ \E ok \in Env :
          Step(p, "u_stage", Ev("daemon-reload", <<>>, IF ok THEN "ok" ELSE "fail"), fs, Fault(~ok))
    /\ UNCHANGED <<svc, enabled, buildDir, foundDir, staged, idx>>

\* (mutant) an uninstall script that cannot be copied is passed over
U_StageLenient(p) ==
    /\ pc[p] = "u_stage"
    /\ LET scriptPath == Join(InstallDir(cfg[p]), Base(RelP(<<cfg[p].UninstallScript>>)))
       IN  IF cfg[p].UninstallScript = EmptyName
           THEN Jump(p, "u_rmall")
           ELSE IF exists(fs, scriptPath)
           THEN Jump(p, "u_run")
           ELSE \E io \in Env :
                   LET c == Copy(fs, GetScript(cfg[p].UninstallScript), scriptPath)
                   IN  IF io /\ c.ok
                       THEN Step(p, "u_run",
                                 Ev("stage-uninstall", Resolve(scriptPath), "ok"), c.fs, Fault(~io))
                       ELSE Step(p, "u_rmall",
                                 Ev("stage-uninstall", Resolve(scriptPath), "fail"), fs, Fault(~io))
    /\ UNCHANGED <<svc, enabled, buildDir, foundDir, staged, idx>>

\* the uninstall script is copied into the install root unless it is there
U_Stage(p) ==
    /\ pc[p] = "u_stage"
    /\ LET scriptPath == Join(InstallDir(cfg[p]), Base(RelP(<<cfg[p].UninstallScript>>)))
       IN  IF cfg[p].UninstallScript = EmptyName
           THEN Jump(p, "u_rmall")
           ELSE IF exists(fs, scriptPath)
           THEN Jump(p, "u_run")
           ELSE \E io \in Env :
                   LET c == Copy(fs, GetScript(cfg[p].UninstallScript), scriptPath)
                   IN  IF io /\ c.ok
                       THEN Step(p, "u_run",
                                 Ev("stage-uninstall", Resolve(scriptPath), "ok"), c.fs, Fault(~io))
                       ELSE Step(p, "fatal",
                                 Ev("stage-uninstall", Resolve(scriptPath), "fail"), fs, Fault(~io))
    /\ UNCHANGED <<svc, enabled, buildDir, foundDir, staged, idx>>

\* runScript(scriptPath, installDir)
U_Run(p) ==
    /\ pc[p] = "u_run"
    /\ \E exit0 \in Env :
          IF exit0
          THEN Step(p, "u_rmall", Ev("run-uninstall", <<>>, "ok"), fs, Fault(~exit0))
          ELSE Step(p, "fatal", Ev("run-uninstall", <<>>, "fail"), fs, Fault(~exit0))
    /\ UNCHANGED <<svc, enabled, buildDir, foundDir, staged, idx>>

\* os.RemoveAll(installDir), error dropped
U_RemoveAll(p) ==
    /\ pc[p] = "u_rmall"
    /\ \E io \in Env :
          Step(p, "done",
               Ev("remove-root", Resolve(InstallDir(cfg[p])), IF io THEN "ok" ELSE "fail"),
               IF io THEN RemoveAll(fs, InstallDir(cfg[p])) ELSE fs, Fault(~io))
    /\ UNCHANGED <<svc, enabled, buildDir, foundDir, staged, idx>>

(***************************************************************************)
(* The specification: the operator runs the tool MaxRuns times, one run    *)
(* after the other, with one configuration.                                *)
(***************************************************************************)
Next ==
    \/ \E p \in Procs : Start(p)
    \/ \E p \in Procs : Main(p)
    \/ \E p \in Procs : B_MkdirTemp(p)
    \/ \E p \in Procs : B_Glob(p)
    \/ \E p \in Procs : B_Stage(p)
    \/ \E p \in Procs : B_Run(p)
    \/ \E p \in Procs : I_Check(p)
    \/ \E p \in Procs : I_Stop(p)
    \/ \E p \in Procs : I_Wait(p)
    \/ \E a \in Services : ServiceStopped(a)
    \/ \E p \in Procs : I_Mkdir(p)
    \/ \E p \in Procs : I_Find(p)
    \/ \E p \in Procs : I_Entry(p)
    \/ \E p \in Procs : I_Stage(p)
    \/ \E p \in Procs : I_Run(p)
    \/ \E p \in Procs : I_Unit(p)
    \/ \E p \in Procs : I_Reload(p)
    \/ \E p \in Procs : I_Enable(p)
    \/ \E p \in Procs : I_Start(p)
    \/ \E p \in Procs : I_Cleanup(p)
    \/ \E p \in Procs : U_Stop(p)
    \/ \E p \in Procs : U_Disable(p)
    \/ \E p \in Procs : U_RemoveUnit(p)
    \/ \E p \in Procs : U_Reload(p)
    \/ \E p \in Procs : U_Stage(p)
    \/ \E p \in Procs : U_Run(p)
    \/ \E p \in Procs : U_RemoveAll(p)

Spec == Init /\ [][Next]_vars

\* two apps on one machine, "a" and "a_b", with the same configuration but for
\* the name; the operator runs the tool for one or the other, one run at a time
AppsInit ==
    /\ fs = InitFS
    /\ svc = [a \in Services |-> "inactive"]
    /\ enabled = [a \in Services |-> FALSE]
    /\ live = Procs
    /\ cfg \in [Procs -> [AppName : {<<"a">>, OtherApp},
                          BuildFiles : {<<PatNone, SrcF, PatStar>>},
                          InstallFiles : {<<Entry(SrcF, "cwd")>>,
                                          <<Entry(SrcF, "cwd"), Entry(BuiltO, "build")>>,
                                          <<Entry(SrcF, "build"), Entry(SrcD, "cwd")>>},
                          BuildScript : {BuildSh},
                          InstallScript : {EmptyName, InstallSh},
                          UninstallScript : {UninstallSh},
                          Systemd : BOOLEAN,
                          SystemdRunAsUser : {FALSE},
                          Exec : {"x"}]]
    /\ cfg["p1"].AppName = <<"a">>
    /\ cfg["p2"] = [cfg["p1"] EXCEPT !.AppName = OtherApp]
    /\ act = [p \in Procs |-> "build"]
    /\ pc = [p \in Procs |-> "idle"]
    /\ buildDir = [p \in Procs |-> EmptyPath]
    /\ foundDir = [p \in Procs |-> EmptyPath]
    /\ staged = [p \in Procs |-> {}]
    /\ idx = [p \in Procs |-> 0]
    /\ trace = [p \in Procs |-> <<>>]
    /\ runs = 0
    /\ faults = 0
    /\ prev = [act |-> "none", end |-> "none", root |-> Root(InitFS, cfg["p1"])]

AppsSpec == AppsInit /\ [][Next]_vars

\* two install invocations for the same app started at the same moment; their
\* steps interleave freely, nothing in the code orders them.  Once both have
\* ended the operator runs the tool once more, as in Spec.
RaceInit ==
    /\ fs = InitFS
    /\ svc = [a \in Services |-> "inactive"]
    /\ enabled = [a \in Services |-> FALSE]
    /\ live = Procs
    /\ cfg \in [Procs -> {FullConfig, PlainConfig}]
    /\ cfg["p2"] = cfg["p1"]
    /\ act = [p \in Procs |-> "install"]
    /\ pc = [p \in Procs |-> "main"]
    /\ buildDir = [p \in Procs |-> EmptyPath]
    /\ foundDir = [p \in Procs |-> EmptyPath]
    /\ staged = [p \in Procs |-> {}]
    /\ idx = [p \in Procs |-> 0]
    /\ trace = [p \in Procs |-> <<>>]
    /\ runs = MaxRuns - 1
    /\ faults = 0
    /\ prev = [act |-> "none", end |-> "none", root |-> Root(InitFS, cfg["p1"])]

RaceSpec == RaceInit /\ [][Next]_vars

\* the same program when the wait loop's check returns each time it is run and
\* a service that was told to stop does stop
WaitSpec ==
    /\ Spec
    /\ \A p \in Procs : WF_vars(I_Wait(p))
    /\ WF_vars(\E a \in Services : ServiceStopped(a))

(***************************************************************************)
(* Vocabulary of the properties.                                           *)
(***************************************************************************)
\* the runs of an action that have started
Running(p, a) == p \in live /\ pc[p] # "idle" /\ act[p] = a

\* the run got past main: the config was loaded and validated
Validated(p) ==
    /\ Len(trace[p]) >= 1
    /\ trace[p][1].op = "validate"
    /\ trace[p][1].res = "ok"

\* the positions in p's trace of the events with an op in ops
At(p, ops) == {i \in 1..Len(trace[p]) : trace[p][i].op \in ops}

\* the last event of a run that has logged one
Last(p) == trace[p][Len(trace[p])]

\* the steps of doInstall that create or write the install root
RootOps == {"mkdir", "copy", "stage-install", "run-install"}

\* the positions of doInstall from the creation of the install root to the
\* install script
RootPcs == {"i_mkdir", "i_find", "i_entry", "i_stage", "i_run"}

\* the systemctl subcommands
ServiceOps == {"is-active", "stop", "daemon-reload", "enable", "start", "disable"}

\* the steps that bring the unit up: unit file, reload, enable, start
UnitUpOps == {"write-unit", "daemon-reload", "enable", "start"}

\* every step of a stage (anything but main's own events)
MainOps == {"usage", "load-config", "validate"}

\* the three conditions validateConfig rejects, as the specification lists them
Invalid(c) ==
    \/ c.AppName = <<>>
    \/ c.InstallFiles = <<>>
    \/ (c.Systemd /\ c.Exec = "")

(***************************************************************************)
(* C1.  In a service-managed install, the install root is created and      *)
(* written only while the service is not active: every such step comes     *)
(* after a liveness check that reported inactive, and when the first check *)
(* reported active a successful stop lies between the two.                 *)
(***************************************************************************)
C1_StopBeforeRootSteps ==
    \A p \in live :
        (Running(p, "install") /\ cfg[p].Systemd) =>
            /\ pc[p] \in RootPcs => svc[App(p)] = "inactive"
            /\ \A i \in At(p, RootOps) :
                  /\ \E k \in At(p, {"is-active"}) :
                        k < i /\ trace[p][k].res = "inactive"
                  /\ (\E k \in At(p, {"is-active"}) : trace[p][k].res = "active")
                        => \E j \in At(p, {"stop"}), k \in At(p, {"is-active"}) :
                              /\ j < k /\ k < i
                              /\ trace[p][j].res = "ok"
                              /\ trace[p][k].res = "inactive"

\* an install found the service active, stopped it, waited and created the root
C1_Witness ==
    \E p \in live :
        /\ Running(p, "install")
        /\ pc[p] = "i_find"
        /\ \E j \in At(p, {"stop"}) : trace[p][j].res = "ok"
        /\ \E k \in At(p, {"is-active"}) : trace[p][k].res = "active"

(***************************************************************************)
(* C2.  In a service-managed install, the unit is written, reloaded,       *)
(* enabled and started only after every install file was copied and the    *)
(* install script, if configured, exited 0; no copy and no script step     *)
(* follows any of them.                                                    *)
(***************************************************************************)
C2_UnitAfterFilesAndScript ==
    \A p \in live :
        (Running(p, "install") /\ cfg[p].Systemd) =>
            \A i \in At(p, UnitUpOps) :
                /\ Cardinality({j \in At(p, {"copy"}) : j < i /\ trace[p][j].res = "ok"})
                      = Len(cfg[p].InstallFiles)
                /\ cfg[p].InstallScript # <<>>
                      => \E j \in At(p, {"run-install"}) : j < i /\ trace[p][j].res = "ok"
                /\ \A j \in At(p, {"copy", "entry", "stage-install", "run-install"}) : j < i

\* an install with a script that got as far as starting the service
C2_Witness ==
    \E p \in live :
        /\ Running(p, "install")
        /\ cfg[p].InstallScript # <<>>
        /\ \E i \in At(p, {"start"}) : trace[p][i].res = "ok"

(***************************************************************************)
(* C3.  With systemd=false the install action (build, then install) runs   *)
(* no systemctl command and writes no unit file, however its steps end.    *)
(***************************************************************************)
C3_NoServiceOpsWithoutSystemd ==
    \A p \in live :
        (Running(p, "install") /\ ~Invalid(cfg[p]) /\ ~cfg[p].Systemd) =>
            /\ At(p, ServiceOps \cup {"write-unit"}) = {}
            /\ ~IsFile(fs, Resolve(UnitPath(cfg[p])))
            /\ svc[App(p)] = "inactive"
            /\ ~enabled[App(p)]

\* an install without a service that ran to its end
C3_Witness ==
    \E p \in live :
        /\ Running(p, "install")
        /\ ~cfg[p].Systemd
        /\ pc[p] = "done"
        /\ \E i \in At(p, {"copy"}) : trace[p][i].res = "ok"

(***************************************************************************)
(* C4.  As stated: an uninstall that got past validation leaves no install *)
(* root behind when it ends, whether or not the uninstall script exists    *)
(* at its source.  Stated for behaviours in which no command fails.        *)
(***************************************************************************)
C4_UninstallAlwaysRemovesRoot ==
    \A p \in live :
        (Running(p, "uninstall") /\ Validated(p) /\ pc[p] \in {"done", "fatal"}
            /\ faults = 0)
            => ~Root(fs, cfg[p]).present

(***************************************************************************)
(* C4, amended.  Uninstall removes the install root when it reaches the    *)
(* removal, which is its last step: a run that ends normally ends with the *)
(* removal, and a removal that succeeded leaves no root.  A run that ends  *)
(* fatally after validation stopped at the uninstall script (it could not  *)
(* be copied to the root, or it exited non-zero), never attempted the      *)
(* removal, and leaves an install root that existed in place.              *)
(***************************************************************************)
C4_UninstallRemovesRootUnlessScriptFails ==
    \A p \in live :
        (Running(p, "uninstall") /\ Validated(p)) =>
            /\ pc[p] = "done" =>
                  /\ Last(p).op = "remove-root"
                  /\ Last(p).res = "ok" => ~Root(fs, cfg[p]).present
            /\ pc[p] = "fatal" =>
                  /\ Last(p).op \in {"stage-uninstall", "run-uninstall"}
                  /\ Last(p).res = "fail"
                  /\ At(p, {"remove-root"}) = {}
                  /\ prev.root.present => Root(fs, cfg[p]).present
            /\ At(p, {"remove-root"}) # {} => pc[p] = "done"

\* an uninstall, with a script, removed a root that an earlier run had made
C4_Witness ==
    \E p \in live :
        /\ Running(p, "uninstall")
        /\ pc[p] = "done"
        /\ cfg[p].UninstallScript # <<>>
        /\ prev.root.present
        /\ Last(p).res = "ok"
        /\ ~Root(fs, cfg[p]).present

(***************************************************************************)
(* C5.  The configuration is validated once, as the first thing a run      *)
(* does, before any step of build, install or uninstall.  A configuration  *)
(* with an empty app name, no install files, or systemd without an exec    *)
(* ends the run fatally there: no step of a stage is taken, and the file   *)
(* system and the services are as they were.                               *)
(***************************************************************************)
C5_ValidateFirstAndFatal ==
    \A p \in live :
        pc[p] # "idle" =>
            /\ At(p, MainOps) \subseteq {1}
            /\ Len(trace[p]) >= 2 => Validated(p)
            /\ pc[p] \notin {"main", "fatal"} => Validated(p)
            /\ Invalid(cfg[p]) =>
                  /\ pc[p] \in {"main", "fatal"}
                  /\ Len(trace[p]) <= 1
                  /\ Len(trace[p]) = 1 => Last(p).res = "fail"
                  /\ fs = InitFS
                  /\ \A a \in AppNames : svc[a] = "inactive" /\ ~enabled[a]

\* an install with systemd and no exec, ended at validation
C5_Witness ==
    \E p \in live :
        /\ Running(p, "install")
        /\ cfg[p].Systemd /\ cfg[p].Exec = ""
        /\ pc[p] = "fatal"
        /\ Last(p).op = "validate"

(***************************************************************************)
(* C6.  After a successful install every install-file entry is at the same *)
(* relative path under the install root: what entry p from "cwd" names in  *)
(* the working directory is at installRoot/p, and what entry p from        *)
(* "build" names in the staging directory is at installRoot/p with the     *)
(* content the staging directory had.                                      *)
(***************************************************************************)
\* the path an entry names, "." being the directory itself
PlaceOf(e) == IF IsDot(Clean(e.File)) THEN <<>> ELSE Clean(e.File).segs

C6_RoundTripPlacement ==
    \A p \in live :
        (Running(p, "install") /\ pc[p] = "done") =>
            \A k \in 1..Len(cfg[p].InstallFiles) :
                LET e == cfg[p].InstallFiles[k]
                    here == {q \in DOMAIN fs.files : Under(q, Cwd \o PlaceOf(e))}
                IN  /\ e.From = "cwd" =>
                          \A q \in here :
                              <<SubSeq(q, Len(Cwd) + 1, Len(q)), fs.files[q]>>
                                  \in Root(fs, cfg[p]).files
                    /\ e.From = "build" =>
                          \A x \in staged[p] :
                              Under(x[1], PlaceOf(e)) => x \in Root(fs, cfg[p]).files

(***************************************************************************)
(* C7.  Install is idempotent: when an install that ran to its end is      *)
(* followed by another with the same configuration and the same source     *)
(* files, the install root after the second is the install root after the  *)
(* first.                                                                  *)
(***************************************************************************)
C7_InstallIdempotent ==
    \A p \in live :
        (Running(p, "install") /\ pc[p] = "done"
            /\ prev.act = "install" /\ prev.end = "done")
            => Root(fs, cfg[p]) = prev.root

(***************************************************************************)
(* C8.  A build pattern that is well formed and matches no file is only    *)
(* warned about: build goes on with the next pattern, then the build       *)
(* script, and the run does not end fatally at that pattern.               *)
(***************************************************************************)
\* the patterns of c that match nothing, by their position
EmptyMatches(c) ==
    {k \in 1..Len(c.BuildFiles) :
        Glob(fs, c.BuildFiles[k]).ok /\ Glob(fs, c.BuildFiles[k]).matches = <<>>}

C8_EmptyMatchOnlyWarns ==
    \A p \in live :
        ((Running(p, "build") \/ Running(p, "install")) /\ Validated(p)) =>
            \A k \in EmptyMatches(cfg[p]) :
                LET t == trace[p]  n == 2 + k
                IN  Len(t) >= n =>
                        /\ t[n].op = "glob" /\ t[n].res = "warn"
                        /\ Len(t) = n => pc[p] # "fatal"
                        /\ (Len(t) > n /\ k < Len(cfg[p].BuildFiles))
                              => t[n + 1].op = "glob"
                        /\ (Len(t) > n /\ k = Len(cfg[p].BuildFiles)
                              /\ cfg[p].BuildScript # <<>>)
                              => t[n + 1].op \in {"stage-build", "run-build"}

\* a build warned about a pattern, copied the matches of a later one, and ran
\* its script
C8_Witness ==
    \E p \in live :
        /\ Running(p, "build")
        /\ \E i \in At(p, {"glob"}), j \in At(p, {"glob"}), k \in At(p, {"run-build"}) :
              /\ i < j /\ j < k
              /\ trace[p][i].res = "warn"
              /\ trace[p][j].res = "ok"
              /\ trace[p][k].res = "ok"

(***************************************************************************)
(* C9.  The unit's identity follows from the configuration alone.  Without *)
(* systemdRunAsUser the unit name and the target of every systemctl        *)
(* command are the app name; with it the unit name is the app name         *)
(* followed by "@", and is-active, stop, enable, start and disable target  *)
(* the app name followed by "@*".  The unit file is the unit directory     *)
(* plus the unit name plus ".service" in both cases.                       *)
(***************************************************************************)
C9_UnitIdentity ==
    \A p \in live :
        (pc[p] # "idle" /\ cfg[p].Systemd) =>
            LET app == cfg[p].AppName
                name == IF cfg[p].SystemdRunAsUser THEN app \o <<"@">> ELSE app
                target == IF cfg[p].SystemdRunAsUser THEN app \o <<"@", "*">> ELSE app
                file == <<<<"usr">>, <<"lib">>, <<"systemd">>, <<"system">>,
                          name \o <<".service">>>>
            IN  /\ UnitName(cfg[p]) = name
                /\ \A i \in At(p, {"is-active", "stop", "enable", "start", "disable"}) :
                      trace[p][i].arg = target
                /\ \A i \in At(p, {"write-unit", "remove-unit"}) :
                      trace[p][i].arg = file
                /\ (Len(trace[p]) >= 1 /\ Last(p).op = "write-unit" /\ Last(p).res = "ok")
                      => IsFile(fs, file)

\* a run-as-user install stopped the running instances and enabled the unit
C9_Witness ==
    \E p \in live :
        /\ Running(p, "install")
        /\ cfg[p].SystemdRunAsUser
        /\ At(p, {"stop"}) # {}
        /\ At(p, {"write-unit"}) # {}
        /\ At(p, {"enable"}) # {}

(***************************************************************************)
(* C10.  As stated: a failed stop in the stop that precedes install is     *)
(* tolerated, install does not end fatally on it.                          *)
(***************************************************************************)
C10_StopFailureTolerated ==
    \A p \in live :
        (Running(p, "install") /\ pc[p] = "fatal")
            => ~(Last(p).op = "stop" /\ Last(p).res = "fail")

(***************************************************************************)
(* C10, amended.  A failed stop in the stop that precedes install is       *)
(* fatal: install ends there, before any step on the install root.  The    *)
(* failures of the later unit write, reload, enable and start are fatal    *)
(* too.                                                                    *)
(***************************************************************************)
C10_StopFailureFatal ==
    \A p \in live :
        Running(p, "install") =>
            /\ \A i \in At(p, {"stop"}) :
                  trace[p][i].res = "fail" =>
                      /\ i = Len(trace[p])
                      /\ pc[p] = "fatal"
                      /\ At(p, RootOps) = {}
            /\ \A i \in At(p, UnitUpOps) :
                  trace[p][i].res = "fail" => (i = Len(trace[p]) /\ pc[p] = "fatal")

\* an install ended at the stop that failed
C10_Witness ==
    \E p \in live :
        /\ Running(p, "install")
        /\ pc[p] = "fatal"
        /\ Last(p).op = "stop"
        /\ Last(p).res = "fail"

(***************************************************************************)
(* C11.  In a service-managed uninstall the four teardown steps, stop,     *)
(* disable, removal of the unit file and reload, are each attempted        *)
(* whatever the earlier ones returned, none of them ends the run, and      *)
(* uninstall goes on with the uninstall script and the removal of the      *)
(* install root.                                                           *)
(***************************************************************************)
\* the teardown of doUninstall, in the order of the code
TeardownOps == <<"stop", "disable", "remove-unit", "daemon-reload">>

C11_TeardownBestEffort ==
    \A p \in live :
        (Running(p, "uninstall") /\ Validated(p) /\ cfg[p].Systemd) =>
            /\ \A k \in 1..4 :
                  Len(trace[p]) >= 1 + k => trace[p][1 + k].op = TeardownOps[k]
            /\ Len(trace[p]) <= 4 =>
                  pc[p] = <<"u_stop", "u_disable", "u_rmunit", "u_reload">>[Len(trace[p])]
            /\ Len(trace[p]) = 5 => pc[p] \in {"u_stage", "u_run", "u_rmall"}
            /\ pc[p] = "fatal" =>
                  (Len(trace[p]) > 5 /\ Last(p).op \in {"stage-uninstall", "run-uninstall"})
            /\ pc[p] = "done" => Last(p).op = "remove-root"

\* an uninstall ran to its end although one step of the teardown had failed
C11_Witness ==
    \E p \in live :
        /\ Running(p, "uninstall")
        /\ cfg[p].Systemd
        /\ pc[p] = "done"
        /\ \E i \in At(p, {"stop", "disable", "daemon-reload"}) : trace[p][i].res = "fail"
        /\ At(p, {"run-uninstall"}) # {}

(***************************************************************************)
(* C12.  The install action runs the build to its end before any step of   *)
(* the install stage, and a build script that exits non-zero ends the      *)
(* whole action: no service check or stop, no creation of or copy into the *)
(* install root, no unit write and no staging cleanup follow.              *)
(***************************************************************************)
\* the steps of doBuild and of doInstall
BuildOps == {"mkdtemp", "glob", "stage-build", "run-build"}

InstallOps ==
    {"is-active", "stop", "mkdir", "find", "entry", "copy", "stage-install",
     "run-install", "write-unit", "daemon-reload", "enable", "start", "cleanup"}

C12_BuildCompletesBeforeInstall ==
    \A p \in live :
        Running(p, "install") =>
            /\ \A i \in At(p, BuildOps), j \in At(p, InstallOps) : i < j
            /\ \A j \in At(p, InstallOps) :
                  /\ \A i \in At(p, BuildOps) : trace[p][i].res \in {"ok", "warn"}
                  /\ Cardinality(At(p, {"glob"})) = Len(cfg[p].BuildFiles)
                  /\ cfg[p].BuildScript # <<>> => At(p, {"run-build"}) # {}
            /\ (\E i \in At(p, {"run-build"}) : trace[p][i].res = "fail") =>
                  /\ pc[p] = "fatal"
                  /\ Last(p).op = "run-build"
                  /\ At(p, InstallOps) = {}
                  /\ Root(fs, cfg[p]) = prev.root
                  /\ IsDir(fs, Resolve(buildDir[p]))

\* an install action ended at its build script
C12_Witness ==
    \E p \in live :
        /\ Running(p, "install")
        /\ pc[p] = "fatal"
        /\ Last(p).op = "run-build"
        /\ Last(p).res = "fail"

(***************************************************************************)
(* C13.  The wait loop of install has no bound.  When the service does     *)
(* report inactive after the stop, an install that waits leaves the loop   *)
(* for the install root; every other step of the install action moves      *)
(* forward in the code (or to the next pattern or entry), so the action    *)
(* ends, completed or fatally, once every command returns.  As long as the *)
(* service reports active no step leaves the loop, so no step on the       *)
(* install root is reached.                                                *)
(***************************************************************************)
\* the positions of the install action in the order of the code
Positions ==
    <<"main", "b_mkdir", "b_glob", "b_stage", "b_run", "i_check", "i_stop", "i_wait",
      "i_mkdir", "i_find", "i_entry", "i_stage", "i_run", "i_unit", "i_reload",
      "i_enable", "i_start", "i_cleanup", "done">>

Rank(at) ==
    IF at = "fatal" THEN Len(Positions)
    ELSE CHOOSE k \in 1..Len(Positions) : Positions[k] = at

\* a step of a running install moves forward in the code, or to the next
\* pattern or entry of a range, or stays in the wait loop
Advances(p) ==
    \/ Rank(pc'[p]) > Rank(pc[p])
    \/ pc'[p] = pc[p] /\ pc[p] \in {"b_glob", "i_entry"} /\ idx'[p] > idx[p]
    \/ pc'[p] = pc[p] /\ pc[p] = "i_wait"

C13_WaitLoopUnbounded ==
    /\ \A p \in Procs :
          (p \in live /\ pc[p] = "i_wait") ~> (p \in live /\ pc[p] = "i_mkdir")
    /\ [][\A p \in live :
            (pc[p] = "i_wait" /\ IsActive(svc[App(p)])) => pc'[p] = "i_wait"]_vars
    /\ [][\A p \in live :
            (act[p] = "install" /\ pc[p] \notin {"idle", "done", "fatal"}) => Advances(p)]_vars

\* an install waits for a service that is still going down
C13_Witness ==
    \E p \in live :
        /\ Running(p, "install")
        /\ pc[p] = "i_wait"
        /\ svc[App(p)] = "stopping"

(***************************************************************************)
(* C14.  The staging directory that install takes its "build" entries from *)
(* is the one the build of the same install action has made, also when     *)
(* other staging directories of the app are in the temp directory.         *)
(***************************************************************************)
C14_InstallUsesOwnStagingDir ==
    \A p \in live :
        (Running(p, "install") /\ At(p, {"find"}) # {} /\ foundDir[p] # EmptyPath)
            => foundDir[p] = buildDir[p]

(***************************************************************************)
(* C15.  When an install completes, its last step was the cleanup, and a   *)
(* cleanup whose enumeration and removals succeeded leaves no directory of *)
(* the temp directory with the app's prefix, whichever one was used.  The  *)
(* cleanup never ends the run fatally.  A build action removes no staging  *)
(* directory.                                                              *)
(***************************************************************************)
\* the staging directories of p's app, as paths
StagingPaths(f, p) ==
    {Resolve(Join(TmpDir, RelP(<<StagingDirs(f, App(p))[i]>>))) :
        i \in 1..Len(StagingDirs(f, App(p)))}

C15_CleanupRemovesEveryStagingDir ==
    /\ [](\A p \in live :
            Running(p, "install") =>
                /\ pc[p] = "done" =>
                      /\ Last(p).op = "cleanup"
                      /\ Last(p).res = "ok" => StagingDirs(fs, App(p)) = <<>>
                /\ At(p, {"cleanup"}) # {} =>
                      (pc[p] = "done" /\ At(p, {"cleanup"}) = {Len(trace[p])}))
    /\ [][\A p \in live :
            Running(p, "build") => \A d \in StagingPaths(fs, p) : IsDir(fs', d)]_vars

\* an install that found an older staging directory removed it and its own
C15_Witness ==
    \E p \in live :
        /\ Running(p, "install")
        /\ pc[p] = "done"
        /\ Last(p).res = "ok"
        /\ foundDir[p] # EmptyPath
        /\ foundDir[p] # buildDir[p]
        /\ ~IsDir(fs, Resolve(foundDir[p]))
        /\ ~IsDir(fs, Resolve(buildDir[p]))

(***************************************************************************)
(* C16.  An install that finds no staging directory goes on: the search    *)
(* itself never ends the run, the run ends fatally for the lack of a       *)
(* staging directory only at an entry from "build", after the entries      *)
(* before it were copied, and with entries from "cwd" only it never does.  *)
(***************************************************************************)
C16_MissingStagingDirTolerated ==
    \A p \in live :
        (Running(p, "install") /\ At(p, {"find"}) # {}) =>
            /\ \A i \in At(p, {"find"}) : trace[p][i].res = "ok"
            /\ Last(p).op = "find" => pc[p] # "fatal"
            /\ \A i \in 1..Len(trace[p]) :
                  trace[p][i].res = "no-build-dir" =>
                      /\ foundDir[p] = EmptyPath
                      /\ i = Len(trace[p])
                      /\ cfg[p].InstallFiles[idx[p]].From = "build"
                      /\ Cardinality(At(p, {"copy"})) = idx[p] - 1
                      /\ \A k \in 1..(idx[p] - 1) : cfg[p].InstallFiles[k].From = "cwd"
            /\ (foundDir[p] = EmptyPath /\ pc[p] = "fatal" /\ Last(p).op = "entry"
                  /\ cfg[p].InstallFiles[idx[p]].From = "cwd")
                  => Last(p).res = "missing"

\* an install with entries from the working tree only completed without a
\* staging directory
C16_Witness ==
    \E p \in live :
        /\ Running(p, "install")
        /\ pc[p] = "done"
        /\ foundDir[p] = EmptyPath
        /\ At(p, {"copy"}) # {}

(***************************************************************************)
(* C17.  The install files are taken in the order of the configuration.    *)
(* An entry whose from is neither "cwd" nor "build", or whose source does  *)
(* not exist, ends the install there: the entries before it were copied,   *)
(* it and the entries after it are not, and the install script is neither  *)
(* staged nor run.                                                         *)
(***************************************************************************)
\* where the k-th entry of p's configuration is copied to
EntryTarget(p, k) == Resolve(Join(InstallDir(cfg[p]), cfg[p].InstallFiles[k].File))

\* the source of the entry install is at
EntrySource(p) ==
    IF cfg[p].InstallFiles[idx[p]].From = "cwd" THEN cfg[p].InstallFiles[idx[p]].File
    ELSE Join(foundDir[p], cfg[p].InstallFiles[idx[p]].File)

C17_EntriesInOrderFatalAtBadEntry ==
    \A p \in live :
        (Running(p, "install") /\ At(p, {"find"}) # {}) =>
            LET t == trace[p]
                f == CHOOSE i \in At(p, {"find"}) : TRUE
                e == cfg[p].InstallFiles
            IN  /\ \A i \in At(p, {"copy", "entry"}) :
                      /\ i - f \in 1..Len(e)
                      /\ \A j \in (f + 1)..(i - 1) : t[j].op = "copy" /\ t[j].res = "ok"
                      /\ (t[i].op = "copy" /\ ~IsDot(e[i - f].File))
                            => t[i].arg = EntryTarget(p, i - f)
                /\ \A i \in At(p, {"entry"}) :
                      /\ i = Len(t) /\ pc[p] = "fatal"
                      /\ i - f = idx[p]
                      /\ t[i].res = "unknown-from" <=> e[idx[p]].From \notin {"cwd", "build"}
                      /\ t[i].res = "missing" => ~exists(fs, EntrySource(p))
                /\ pc[p] \in {"i_stage", "i_run", "i_unit", "i_reload", "i_enable", "i_start",
                              "i_cleanup", "done"}
                      => /\ Cardinality(At(p, {"copy"})) = Len(e)
                         /\ \A k \in 1..Len(e) : e[k].From \in {"cwd", "build"}
                /\ At(p, {"stage-install", "run-install"}) # {}
                      => Cardinality(At(p, {"copy"})) = Len(e)

\* an install ended at its second entry, whose from is unknown, after the
\* first was copied
C17_Witness ==
    \E p \in live :
        /\ Running(p, "install")
        /\ pc[p] = "fatal"
        /\ Last(p).res = "unknown-from"
        /\ idx[p] = 2
        /\ Cardinality(At(p, {"copy"})) = 1

(***************************************************************************)
(* C18.  Nothing is undone when install ends fatally after the stop that   *)
(* precedes it (at the creation of the root, a copy, the install script,   *)
(* or the unit's write, reload or enable): no start is issued, the service *)
(* stays down, what was copied into the install root is still there and    *)
(* no staging directory was removed.                                       *)
(***************************************************************************)
C18_NoRecoveryAfterFatal ==
    \A p \in live :
        (Running(p, "install") /\ pc[p] = "fatal"
            /\ Last(p).op \in {"mkdir", "entry", "copy", "stage-install", "run-install",
                               "write-unit", "daemon-reload", "enable"}) =>
            /\ At(p, {"start", "cleanup"}) = {}
            /\ cfg[p].Systemd => svc[App(p)] = "inactive"
            /\ \A i \in At(p, {"copy"}) :
                  trace[p][i].res = "ok"
                      => (IsFile(fs, trace[p][i].arg) \/ IsDir(fs, trace[p][i].arg))
            /\ IsDir(fs, Resolve(buildDir[p]))
            /\ foundDir[p] # EmptyPath => IsDir(fs, Resolve(foundDir[p]))

\* an install that had stopped the service and copied a file ended at its
\* install script
C18_Witness ==
    \E p \in live :
        /\ Running(p, "install")
        /\ pc[p] = "fatal"
        /\ Last(p).op = "run-install"
        /\ \E i \in At(p, {"stop"}) : trace[p][i].res = "ok"
        /\ \E i \in At(p, {"copy"}) : trace[p][i].res = "ok"

(***************************************************************************)
(* C19.  With an install script configured, install copies the script into *)
(* the install root only when no file of that name is there.               *)
(*                                                                         *)
(* As stated, the script is also run only when it was absent: every run of *)
(* the script directly follows its copy.                                   *)
(***************************************************************************)
\* where install keeps p's install script in the install root
InstallScriptPath(p) == Join(InstallDir(cfg[p]), Base(RelP(<<cfg[p].InstallScript>>)))

\* the positions of doInstall after the install script step
PastInstallScript == {"i_unit", "i_reload", "i_enable", "i_start", "i_cleanup", "done"}

C19_ScriptRunOnlyWhenStaged ==
    \A p \in live :
        Running(p, "install") =>
            \A i \in At(p, {"run-install"}) :
                i > 1 /\ trace[p][i - 1].op = "stage-install"

(***************************************************************************)
(* C19 (amended).  The script is copied only when no file of that name is  *)
(* in the install root, and it is run on every install that reaches the    *)
(* script step, copied or not; a non-zero exit of the script is fatal.     *)
(***************************************************************************)
C19_ScriptCopiedOnceRunAlways ==
    /\ [](\A p \in live :
            (Running(p, "install") /\ Validated(p)) =>
                /\ (pc[p] \in PastInstallScript /\ cfg[p].InstallScript # EmptyName)
                      => \E i \in At(p, {"run-install"}) :
                            /\ At(p, {"run-install"}) = {i}
                            /\ trace[p][i].res = "ok"
                            /\ exists(fs, InstallScriptPath(p))
                /\ cfg[p].InstallScript = EmptyName
                      => At(p, {"stage-install", "run-install"}) = {}
                /\ \A i \in At(p, {"run-install", "stage-install"}) :
                      trace[p][i].res # "ok" => (i = Len(trace[p]) /\ pc[p] = "fatal"))
    /\ [][\A p \in live :
            (act[p] = "install" /\ pc[p] = "i_stage" /\ pc'[p] # "i_stage"
                /\ cfg[p].InstallScript # EmptyName) =>
                IF exists(fs, InstallScriptPath(p))
                THEN fs' = fs /\ trace'[p] = trace[p] /\ pc'[p] = "i_run"
                ELSE /\ Len(trace'[p]) = Len(trace[p]) + 1
                     /\ trace'[p][Len(trace'[p])].op = "stage-install"
                     /\ pc'[p] \in {"i_run", "fatal"}]_vars

\* a second install in a row found the script in the install root, did not
\* copy it and ran it
C19_Witness ==
    \E p \in live :
        /\ Running(p, "install")
        /\ prev.act = "install"
        /\ cfg[p].InstallScript # EmptyName
        /\ At(p, {"stage-install"}) = {}
        /\ \E i \in At(p, {"run-install"}) : trace[p][i].res = "ok"

(***************************************************************************)
(* C20.  Uninstall goes in a fixed order: the teardown of the service      *)
(* (stop, disable, removal of the unit file, reload) when service-managed, *)
(* then the uninstall script when one is configured, then the removal of   *)
(* the install root.  The root is never removed before the script has      *)
(* finished, and a script that has to be copied from a source that does    *)
(* not exist ends uninstall at the copy, without the script being run.     *)
(***************************************************************************)
\* the events of the uninstall script step
UninstallScriptOps == {"stage-uninstall", "run-uninstall"}

\* the events of the teardown of the service
TeardownSet == {TeardownOps[k] : k \in 1..4}

C20_UninstallOrder ==
    /\ [](\A p \in live :
            (Running(p, "uninstall") /\ Validated(p)) =>
                LET t == trace[p]
                    late == At(p, UninstallScriptOps \cup {"remove-root"})
                IN  /\ \A i \in At(p, TeardownSet) : \A j \in late : i < j
                    /\ \A i \in At(p, {"stage-uninstall"}) :
                          \A j \in At(p, {"run-uninstall"}) : i < j
                    /\ \A i \in At(p, UninstallScriptOps) :
                          \A j \in At(p, {"remove-root"}) : i < j
                    /\ (late # {} \/ pc[p] \in {"u_stage", "u_run", "u_rmall", "done"})
                          => Cardinality(At(p, TeardownSet)) = (IF cfg[p].Systemd THEN 4 ELSE 0)
                    /\ cfg[p].UninstallScript = EmptyName => At(p, UninstallScriptOps) = {}
                    /\ (cfg[p].UninstallScript # EmptyName /\ pc[p] \in {"u_rmall", "done"})
                          => \E i \in At(p, {"run-uninstall"}) : t[i].res = "ok"
                    /\ \A i \in At(p, UninstallScriptOps) :
                          t[i].res # "ok" =>
                              /\ i = Len(t) /\ pc[p] = "fatal"
                              /\ At(p, {"remove-root"}) = {}
                              /\ t[i].op = "stage-uninstall" => At(p, {"run-uninstall"}) = {}
                    /\ \A i \in At(p, {"stage-uninstall"}) :
                          ~exists(fs, GetScript(cfg[p].UninstallScript)) => t[i].res = "fail")
    /\ [][\A q \in live :
            (/\ IsDir(fs, Resolve(InstallDir(cfg[q])))
             /\ ~IsDir(fs', Resolve(InstallDir(cfg[q])))) =>
                \E p \in live :
                    /\ act[p] = "uninstall" /\ pc[p] = "u_rmall" /\ pc'[p] = "done"
                    /\ cfg[p].UninstallScript # EmptyName
                          => \E i \in At(p, {"run-uninstall"}) : trace[p][i].res = "ok"]_vars

\* a service-managed uninstall went through the teardown and ended at the
\* copy of an uninstall script whose source does not exist
C20_Witness ==
    \E p \in live :
        /\ Running(p, "uninstall")
        /\ cfg[p].Systemd
        /\ pc[p] = "fatal"
        /\ Last(p).op = "stage-uninstall"
        /\ ~exists(fs, GetScript(cfg[p].UninstallScript))
        /\ faults = 0
        /\ Cardinality(At(p, TeardownSet)) = 4

(***************************************************************************)
(* C21.  The life of the unit: install writes the unit file, then reloads  *)
(* the service manager, then enables and starts the unit, in that order; a *)
(* failure of one of the three is fatal and the steps after it are not     *)
(* taken.  No other action writes the unit file, and only uninstall        *)
(* removes it.                                                             *)
(***************************************************************************)
\* the order in which install brings the unit up
UnitUpOrder == <<"write-unit", "daemon-reload", "enable", "start">>

\* the unit file of configuration c is in file system f
UnitInstalled(f, c) == IsFile(f, Resolve(UnitPath(c)))

C21_UnitLifecycle ==
    /\ [](\A p \in live :
            (Running(p, "install") /\ Validated(p)) =>
                LET t == trace[p]
                IN  /\ \A k \in 1..4 : Cardinality(At(p, {UnitUpOrder[k]})) <= 1
                    /\ \A k \in 2..4 : \A i \in At(p, {UnitUpOrder[k]}) :
                          i > 1 /\ t[i - 1].op = UnitUpOrder[k - 1] /\ t[i - 1].res = "ok"
                    /\ \A i \in At(p, UnitUpOps) :
                          t[i].res # "ok" => (i = Len(t) /\ pc[p] = "fatal")
                    /\ At(p, UnitUpOps) # {} => cfg[p].Systemd
                    /\ (\E i \in At(p, {"write-unit"}) : t[i].res = "ok")
                          => /\ UnitInstalled(fs, cfg[p])
                             /\ fs.files[Resolve(UnitPath(cfg[p]))] = GenerateFile(cfg[p])
                    /\ (pc[p] = "done" /\ cfg[p].Systemd)
                          => /\ \A k \in 1..4 : At(p, {UnitUpOrder[k]}) # {}
                             /\ UnitInstalled(fs, cfg[p])
                             /\ enabled[App(p)]
                             /\ ~cfg[p].SystemdRunAsUser => svc[App(p)] = "active")
    /\ [][\A q \in live :
            LET u == Resolve(UnitPath(cfg[q]))
                a == App(q)
            IN  /\ (UnitInstalled(fs', cfg[q])
                      /\ (UnitInstalled(fs, cfg[q]) => fs'.files[u] # fs.files[u]))
                      => \E p \in live :
                            /\ act[p] = "install" /\ cfg[p].Systemd
                            /\ pc[p] = "i_unit" /\ pc'[p] = "i_reload"
                /\ (UnitInstalled(fs, cfg[q]) /\ ~UnitInstalled(fs', cfg[q]))
                      => \E p \in live :
                            /\ act[p] = "uninstall" /\ cfg[p].Systemd
                            /\ pc[p] = "u_rmunit"
                /\ (~enabled[a] /\ enabled'[a])
                      => \E p \in live :
                            /\ act[p] = "install" /\ pc[p] = "i_enable"
                            /\ UnitInstalled(fs, cfg[p])
                /\ (svc[a] # "active" /\ svc'[a] = "active")
                      => \E p \in live :
                            /\ act[p] = "install" /\ pc[p] \in {"i_enable", "i_start"}
                            /\ UnitInstalled(fs, cfg[p])
                /\ (enabled[a] /\ ~enabled'[a])
                      => \E p \in live : act[p] = "uninstall" /\ pc[p] = "u_disable"]_vars

\* an uninstall took away the unit that the install before it had written,
\* enabled and started
C21_Witness ==
    \E p \in live :
        /\ Running(p, "uninstall")
        /\ prev.act = "install" /\ prev.end = "done"
        /\ cfg[p].Systemd
        /\ \E i \in At(p, {"remove-unit"}) : trace[p][i].res = "ok"
        /\ ~UnitInstalled(fs, cfg[p])
        /\ ~enabled[App(p)]
        /\ svc[App(p)] = "inactive"

(***************************************************************************)
(* C24.  The build action changes staging state only: a run makes one new  *)
(* staging directory, under a name no entry of the temp directory has, and *)
(* leaves it there when it ends; the install root, the unit file, the      *)
(* state of the service and the staging directories made before are left   *)
(* as they were.                                                           *)
(***************************************************************************)
\* file system f without what lies in directory d
Outside(f, d) ==
    [files |-> [q \in {x \in DOMAIN f.files : ~Under(x, d)} |-> f.files[q]],
     dirs |-> {q \in f.dirs : ~Under(q, d)}]

BuiltAndLeft(q) ==
    /\ q \in live
    /\ act[q] = "build"
    /\ pc[q] = "done"
    /\ buildDir[q] # EmptyPath

C23_StagingDirsOfOwnAppOnly ==
    \A p \in live, q \in live :
        (App(p) # App(q) /\ BuiltAndLeft(q)) =>
            /\ IsDir(fs, Resolve(buildDir[q]))
            /\ Running(p, "install") => foundDir[p] # buildDir[q]

(***************************************************************************)
(* C22.  Two installs of one app at the same time race, nothing orders     *)
(* them.  The cleanup at the end of one removes every staging directory of *)
(* the app, the one the other has made and not yet copied from included;   *)
(* the other then ends at its first entry from "build", or takes the entry *)
(* from another staging directory.  And the service is started, by the     *)
(* enable or the start of one install, while the other is between its stop *)
(* and its start.                                                          *)
(***************************************************************************)
\* p has stopped the service, has seen it down and has not started it yet
InStopStartWindow(p) ==
    /\ act[p] = "install"
    /\ pc[p] \in {"i_mkdir", "i_find", "i_entry", "i_stage", "i_run", "i_unit",
                  "i_reload", "i_enable", "i_start"}
    /\ \E i \in At(p, {"stop"}) : trace[p][i].res = "ok"
    /\ At(p, {"enable", "start"}) = {}

C22_ConcurrentInstallsRace ==
    /\ [](\A q \in live :
            (Running(q, "install") /\ At(q, {"find"}) # {}) =>
                LET f == CHOOSE i \in At(q, {"find"}) : TRUE
                    e == cfg[q].InstallFiles
                IN  /\ foundDir[q] = EmptyPath
                          => \A i \in At(q, {"copy"}) : e[i - f].From = "cwd"
                    /\ (foundDir[q] = EmptyPath /\ pc[q] \notin {"i_entry", "fatal"})
                          => \A k \in 1..Len(e) : e[k].From = "cwd"
                    /\ foundDir[q] # EmptyPath
                          => HasPrefix(foundDir[q].segs[2], StagingPrefix(App(q))))
    /\ [][\A p \in live, q \in live :
            (/\ p # q /\ App(p) = App(q)
             /\ pc[p] = "i_cleanup" /\ pc'[p] = "done"
             /\ trace'[p][Len(trace'[p])].res = "ok"
             /\ buildDir[q] # EmptyPath)
                => ~IsDir(fs', Resolve(buildDir[q]))]_vars
    /\ [][\A a \in Services :
            (svc[a] # "active" /\ svc'[a] = "active") =>
                \E p \in live :
                    /\ App(p) = a /\ act[p] = "install"
                    /\ pc[p] \in {"i_enable", "i_start"} /\ pc'[p] # pc[p]]_vars

\* one install has seen the service stopped and has not yet looked for its
\* staging directory; the other has meanwhile started the service and, in its
\* cleanup, removed the staging directory the first one made
C22_Witness ==
    \E p \in live, q \in live :
        /\ p # q /\ App(p) = App(q)
        /\ InStopStartWindow(p)
        /\ pc[p] \in {"i_mkdir", "i_find"}
        /\ \E k \in 1..Len(cfg[p].InstallFiles) : cfg[p].InstallFiles[k].From = "build"
        /\ buildDir[p] # EmptyPath
        /\ ~IsDir(fs, Resolve(buildDir[p]))
        /\ svc[App(p)] = "active"
        /\ Running(q, "install")
        /\ pc[q] = "done"
        /\ Last(q).op = "cleanup" /\ Last(q).res = "ok"
        /\ \E i \in At(q, {"start"}) : trace[q][i].res = "ok"

====
